---- MODULE Spec2Model ----
(***************************************************************************)
(* Model of parts of the AGS engine:                                       *)
(*   - the custom property store   (Engine/ac/properties.cpp)              *)
(*   - the game initialization     (Engine/game/game_init.cpp)             *)
(*   - the ScriptMouse accessors, the static array exporter, the room      *)
(*     fixups (Common/game/roomstruct.h) and the managed object registry   *)
(* Each part has its own specification over the same variables.            *)
(* Strings of the property store are sequences of character codes, so that *)
(* the case-insensitive comparison of StringIMap is computed, not assumed. *)
(***************************************************************************)
EXTENDS Integers, Sequences, FiniteSets, TLC

VARIABLES
    \* ---- property store ----
    st_prop,      \* static (authored) properties of the entity: set of [key, val]
    rt_prop,      \* runtime overrides of the entity: set of [key, val]
    bufer,        \* the caller's output buffer of get_text_property
    last,         \* the last script call of the property API and what it returned
    \* ---- game initialization ----
    game,         \* the loaded game data InitGameState reads (GameSetupStruct)
    loadedRes,    \* the default resolution of the game data as it was loaded
    usetup,       \* the user's configuration (override_upscale)
    pc,           \* the statement of InitGameState that runs next
    ret,          \* what InitGameState returned ("running" until it returns)
    allocs,       \* the runtime arrays allocated so far: set of [name, count]
    sysCalls,     \* the calls made into the script system, in order
    fonts,        \* the point sizes of the fonts loaded so far, by slot
    scripts,      \* "none", "linked", "failed": the global script
    runtime,      \* whether the session runtime variables were initialized
    plugins,      \* the plugins registered by pl_register_plugins, in order
    plRegErr,     \* what pl_register_plugins returned ("uncalled" before)
    plStarted,    \* the plugins started by pl_startup_plugins, in order
    log,          \* the steps of InitGameState taken so far, in order
    \* ---- ScriptMouse ----
    mouse,        \* the ScriptMouse object: [x, y]
    ccError,      \* the script error channel: the last error cc_error reported
    lastMouse,    \* the last ReadInt32 / WriteInt32 on the mouse and its outcome
    \* ---- static array exporter ----
    statArr,      \* the static array export the script indexes
    lastIndex,    \* the last index access into statArr and its outcome
    \* ---- room loader ----
    room,         \* the loaded room: its resolution tag, background frames and masks
    nextBmp,      \* the identity the next allocated bitmap gets
    lastRoom,     \* the last fixup applied to the room, and the room before it
    \* ---- managed object registry ----
    pool,         \* the registered objects: set of [handle, addr, mgr, refCount, held, state]
    nextHandle,   \* the handle the next registration gets
    initQueue,    \* the calls of InitAndRegisterGameEntities not yet made
    disposed,     \* the handles whose destroy hook was invoked
    \* ---- process ----
    quitmsg       \* "none" while the engine runs; the error once quit() was called

propVars == <<st_prop, rt_prop, bufer, last>>
initVars == <<game, loadedRes, usetup, pc, ret, allocs, sysCalls, fonts, scripts, runtime,
              plugins, plRegErr, plStarted, log>>
mouseVars == <<mouse, ccError, lastMouse>>
\* the parts of the engine outside the property store and InitGameState
arrVars == <<statArr, lastIndex>>
roomVars == <<room, nextBmp, lastRoom>>
regVars == <<pool, nextHandle, initQueue, disposed>>
extVars == <<mouseVars, arrVars, roomVars, regVars>>
vars == <<st_prop, rt_prop, bufer, last, game, loadedRes, usetup, pc, ret, allocs, sysCalls,
          fonts, scripts, runtime, plugins, plRegErr, plStarted, log, quitmsg, extVars>>

-----------------------------------------------------------------------------
\* Strings: sequences of character codes

\* tolower() on one character
ToLowerChar(c) == IF c >= 65 /\ c <= 90 THEN c + 32 ELSE c

ToLower(s) == [i \in 1..Len(s) |-> ToLowerChar(s[i])]

\* the key equality of StringIMap / PropertySchema (case-insensitive)
StrEqNoCase(a, b) == ToLower(a) = ToLower(b)

\* The strings the model uses
sHp   == <<72, 112>>        \* "Hp", the schema's spelling
shp   == <<104, 112>>       \* "hp"
sHP   == <<72, 80>>         \* "HP"
sNm   == <<78, 109>>        \* "Nm"
sOk   == <<79, 107>>        \* "Ok"
szz   == <<122, 122>>       \* "zz", in no schema
sEmpty == <<>>              \* ""
s5    == <<53>>             \* "5"
s10   == <<49, 48>>         \* "10"
s1    == <<49>>             \* "1"
sab   == <<97, 98>>         \* "ab"
sabc  == <<97, 98, 99>>     \* "abc"
sdef  == <<100>>            \* "d"
sQ    == <<63>>             \* "?"

\* capacity of a script string buffer (MAX_MAXSTRLEN), scaled down
MAX_MAXSTRLEN == 3

RECURSIVE DigitsOf(_)
\* decimal digits of n >= 0
DigitsOf(n) == IF n < 10 THEN <<48 + n>> ELSE Append(DigitsOf(n \div 10), 48 + (n % 10))

\* StrUtil::IntToString: "%d"
IntToString(n) == IF n < 0 THEN <<45>> \o DigitsOf(0 - n) ELSE DigitsOf(n)

IsDigit(c) == c >= 48 /\ c <= 57

RECURSIVE DigitsValue(_)
DigitsValue(s) == IF s = <<>> THEN 0
                  ELSE 10 * DigitsValue(SubSeq(s, 1, Len(s) - 1)) + (s[Len(s)] - 48)

\* StrUtil::StringToInt: the number if the whole string is one, else 0
StringToInt(s) ==
    LET neg == Len(s) >= 1 /\ s[1] = 45
        digits == IF neg THEN Tail(s) ELSE s
    IN  IF digits # <<>> /\ \A i \in 1..Len(digits) : IsDigit(digits[i])
        THEN (IF neg THEN 0 - DigitsValue(digits) ELSE DigitsValue(digits))
        ELSE 0

\* snprintf(bufer, cap, "%s", val): at most cap-1 characters are written
Snprintf(cap, val) == IF Len(val) > cap - 1 THEN SubSeq(val, 1, cap - 1) ELSE val

-----------------------------------------------------------------------------
\* The property schema of the game (game.propSchema): immutable in a session

kPropertyBoolean == "kPropertyBoolean"
kPropertyInteger == "kPropertyInteger"
kPropertyString  == "kPropertyString"

propSchema ==
    { [Name |-> sHp, Type |-> kPropertyInteger, DefaultValue |-> s10],
      [Name |-> sNm, Type |-> kPropertyString,  DefaultValue |-> sdef],
      [Name |-> sOk, Type |-> kPropertyBoolean, DefaultValue |-> s1] }

\* what get_property_desc leaves in desc when it does not fill it
NoDesc == [Name |-> sEmpty, Type |-> "kPropertyUndefined", DefaultValue |-> sEmpty]

\* StringIMap::find / PropertySchema::find: the entries whose key equals the
\* name without regard to case (none, or one)
MapFind(map, name) == { e \in map : StrEqNoCase(e.key, name) }
SchemaFind(name) == { d \in propSchema : StrEqNoCase(d.Name, name) }

\* StringIMap::operator[] followed by an assignment
MapAssign(map, name, val) ==
    IF MapFind(map, name) # {}
    THEN { IF StrEqNoCase(e.key, name) THEN [key |-> e.key, val |-> val] ELSE e : e \in map }
    ELSE map \cup { [key |-> name, val |-> val] }

\* quitprintf: reports the error and ends the process; it does not return
quitprintf(err) == err

-----------------------------------------------------------------------------
\* The property functions. Each yields what the call leaves behind:
\* quit = "none" when it returned, else the error quitprintf ended the engine with.

\* get_property_desc that takes a property missing from the schema for one
\* with an empty description instead of reporting it
get_property_desc_DefaultsUnknown(property, want_type) ==
    LET sch_it == SchemaFind(property) IN
    IF sch_it = {}
    THEN [quit |-> "none", ret |-> TRUE, desc |-> NoDesc]
    ELSE LET desc == CHOOSE d \in sch_it : TRUE IN
         IF want_type = kPropertyString /\ desc.Type # kPropertyString
         THEN [quit |-> quitprintf("TypeMismatch"), ret |-> FALSE, desc |-> desc]
         ELSE IF want_type # kPropertyString /\ desc.Type = kPropertyString
         THEN [quit |-> quitprintf("TypeMismatch"), ret |-> FALSE, desc |-> desc]
         ELSE [quit |-> "none", ret |-> TRUE, desc |-> desc]

\* get_property_desc that does not compare the wanted type with the declared one
get_property_desc_NoTypeCheck(property, want_type) ==
    LET sch_it == SchemaFind(property) IN
    IF sch_it = {}
    THEN [quit |-> quitprintf("UnknownProperty"), ret |-> FALSE, desc |-> NoDesc]
    ELSE [quit |-> "none", ret |-> TRUE, desc |-> CHOOSE d \in sch_it : TRUE]

\* get_property_desc(desc, property, want_type)
get_property_desc(property, want_type) ==
    LET sch_it == SchemaFind(property) IN
    IF sch_it = {}
    THEN [quit |-> quitprintf("UnknownProperty"), ret |-> FALSE, desc |-> NoDesc]
    ELSE LET desc == CHOOSE d \in sch_it : TRUE IN
         IF want_type = kPropertyString /\ desc.Type # kPropertyString
         THEN [quit |-> quitprintf("TypeMismatch"), ret |-> FALSE, desc |-> desc]
         ELSE IF want_type # kPropertyString /\ desc.Type = kPropertyString
         THEN [quit |-> quitprintf("TypeMismatch"), ret |-> FALSE, desc |-> desc]
         ELSE [quit |-> "none", ret |-> TRUE, desc |-> desc]

\* get_property_value that looks into the static properties first
get_property_value_StaticFirst(st, rt, property, def_val) ==
    IF MapFind(st, property) # {}
    THEN (CHOOSE e \in MapFind(st, property) : TRUE).val
    ELSE IF MapFind(rt, property) # {}
    THEN (CHOOSE e \in MapFind(rt, property) : TRUE).val
    ELSE def_val

\* get_property_value(st_prop, rt_prop, property, def_val)
get_property_value(st, rt, property, def_val) ==
    IF MapFind(rt, property) # {}
    THEN (CHOOSE e \in MapFind(rt, property) : TRUE).val
    ELSE IF MapFind(st, property) # {}
    THEN (CHOOSE e \in MapFind(st, property) : TRUE).val
    ELSE def_val

\* get_int_property(st_prop, rt_prop, property)
get_int_property(st, rt, property) ==
    LET d == get_property_desc(property, kPropertyInteger) IN
    IF d.quit # "none" THEN [quit |-> d.quit, ret |-> 0]
    ELSE IF ~d.ret THEN [quit |-> "none", ret |-> 0]
    ELSE [quit |-> "none",
          ret |-> StringToInt(get_property_value(st, rt, property, d.desc.DefaultValue))]

\* get_text_property(st_prop, rt_prop, property, bufer): buf is the buffer before
get_text_property(st, rt, property, buf) ==
    LET d == get_property_desc(property, kPropertyString) IN
    IF d.quit # "none" THEN [quit |-> d.quit, bufer |-> buf]
    ELSE IF ~d.ret THEN [quit |-> "none", bufer |-> buf]
    ELSE [quit |-> "none",
          bufer |-> Snprintf(MAX_MAXSTRLEN,
                             get_property_value(st, rt, property, d.desc.DefaultValue))]

\* set_int_property that stores the value before the schema is consulted
set_int_property_WriteFirst(rt, property, value) ==
    LET written == MapAssign(rt, property, IntToString(value))
        d == get_property_desc(property, kPropertyInteger)
    IN  IF d.quit # "none" THEN [quit |-> d.quit, ret |-> FALSE, rt |-> written]
        ELSE [quit |-> "none", ret |-> d.ret, rt |-> written]

\* set_int_property that stores the schema's default instead of the value
set_int_property_StoresDefault(rt, property, value) ==
    LET d == get_property_desc(property, kPropertyInteger) IN
    IF d.quit # "none" THEN [quit |-> d.quit, ret |-> FALSE, rt |-> rt]
    ELSE IF d.ret
    THEN [quit |-> "none", ret |-> TRUE, rt |-> MapAssign(rt, d.desc.Name, d.desc.DefaultValue)]
    ELSE [quit |-> "none", ret |-> FALSE, rt |-> rt]

\* set_int_property(rt_prop, property, value)
set_int_property(rt, property, value) ==
    LET d == get_property_desc(property, kPropertyInteger) IN
    IF d.quit # "none" THEN [quit |-> d.quit, ret |-> FALSE, rt |-> rt]
    ELSE IF d.ret
    THEN [quit |-> "none", ret |-> TRUE, rt |-> MapAssign(rt, d.desc.Name, IntToString(value))]
    ELSE [quit |-> "none", ret |-> FALSE, rt |-> rt]

\* set_text_property(rt_prop, property, value)
set_text_property(rt, property, value) ==
    LET d == get_property_desc(property, kPropertyString) IN
    IF d.quit # "none" THEN [quit |-> d.quit, ret |-> FALSE, rt |-> rt]
    ELSE IF d.ret
    THEN [quit |-> "none", ret |-> TRUE, rt |-> MapAssign(rt, d.desc.Name, value)]
    ELSE [quit |-> "none", ret |-> FALSE, rt |-> rt]

-----------------------------------------------------------------------------
\* Game initialization (game_init.cpp)

\* Engine capacities; their values are set outside these sources and are
\* scaled down here
MAX_AUDIO_TYPES    == 1
MAX_SOUND_CHANNELS == 1
MAX_INV            == 2
MAX_HOTSPOTS       == 1
MAX_REGIONS        == 1
MAX_INIT_SPR       == 1
MAX_PLUGINS        == 1

\* Bounds on the game data
MaxFonts == 2
MaxChars == 2
MaxEnts  == 1

kGameInitErr_NoError           == "NoError"
kGameInitErr_NoFonts           == "NoFonts"
kGameInitErr_TooManyAudioTypes == "TooManyAudioTypes"
kGameInitErr_TooManyPlugins    == "TooManyPlugins"
kGameInitErr_PluginNameInvalid == "PluginNameInvalid"
kGameInitErr_ScriptLinkFailed  == "ScriptLinkFailed"

\* GetGameInitErrorText(err): the message of each error code
GetGameInitErrorText(err) ==
    CASE err = kGameInitErr_NoError -> "No error"
      [] err = kGameInitErr_NoFonts -> "No fonts specified to be used in this game"
      [] err = kGameInitErr_TooManyAudioTypes -> "Too many audio types for this engine to handle"
      [] err = kGameInitErr_TooManyPlugins -> "Too many plugins for this engine to handle"
      [] err = kGameInitErr_PluginNameInvalid -> "Plugin name is invalid"
      [] err = kGameInitErr_ScriptLinkFailed -> "Script link failed: %s"
      [] OTHER -> "Unknown error"

Resolutions == { "kGameResolution_320x200", "kGameResolution_320x240",
                 "kGameResolution_640x400", "kGameResolution_640x480",
                 "kGameResolution_800x600" }

\* game.IsHiRes(): every class above 320x240
IsHiRes(g) == g.resolution \notin { "kGameResolution_320x200", "kGameResolution_320x240" }

\* The games InitGameState may be given
Games ==
    [ numfonts : 0..MaxFonts,
      audioClipTypeCount : 0..(MAX_AUDIO_TYPES + 1),
      resolution : Resolutions,
      numcharacters : 0..MaxChars,
      numdialog : 0..MaxEnts,
      numgui : 0..MaxEnts,
      audioClipCount : 0..MaxEnts,
      unnamed : BOOLEAN,           \* entity 0 of every kind has an empty script name
      optNoScaleFnt : {0, 1} ]     \* game.options[OPT_NOSCALEFNT]

\* game.fontflags[i] & FFLG_SIZEMASK: the declared size of font slot i
FontFlagSize(i) == IF i = 0 THEN 0 ELSE 10 + i

\* Script names of the entities: "" when the entity has none
NameTable ==
    [ audioclip |-> <<"aClip0", "aClip1", "aClip2", "aClip3">>,
      character |-> <<"cChar0", "cChar1", "cChar2", "cChar3">>,
      dialog    |-> <<"dDlg0", "dDlg1", "dDlg2", "dDlg3">>,
      gui       |-> <<"gGui0", "gGui1", "gGui2", "gGui3">>,
      inventory |-> <<"iInv0", "iInv1", "iInv2", "iInv3">> ]

ScriptNameOf(g, kind, i) == IF g.unnamed /\ i = 0 THEN "" ELSE NameTable[kind][i + 1]

\* the sequence body[lo] \o body[lo+1] \o ... \o body[hi]: the calls of a for loop
ForLoop(lo, hi, body) ==
    LET F[i \in lo..(hi + 1)] == IF i > hi THEN <<>> ELSE body[i] \o F[i + 1]
    IN  IF lo > hi THEN <<>> ELSE F[lo]

Addr(arr, i) == [arr |-> arr, idx |-> i]

\* one call into the script system
ccRegisterManagedObject(addr, mgr) ==
    [fn |-> "ccRegisterManagedObject", name |-> "", addr |-> addr, mgr |-> mgr]
ccAddObjectReference(addr) ==
    [fn |-> "ccAddObjectReference", name |-> "", addr |-> addr, mgr |-> ""]
ccAddExternalDynamicObject(name, addr, mgr) ==
    [fn |-> "ccAddExternalDynamicObject", name |-> name, addr |-> addr, mgr |-> mgr]
ccAddExternalStaticArray(name, addr, mgr) ==
    [fn |-> "ccAddExternalStaticArray", name |-> name, addr |-> addr, mgr |-> mgr]
ccAddExternalStaticObject(name, addr, mgr) ==
    [fn |-> "ccAddExternalStaticObject", name |-> name, addr |-> addr, mgr |-> mgr]
export_gui_controls(i) ==
    [fn |-> "export_gui_controls", name |-> "", addr |-> Addr("guis", i), mgr |-> ""]

InitAndRegisterAudioObjects(g) ==
    LET chan[i \in Nat] == << ccRegisterManagedObject(Addr("scrAudioChannel", i), "ccDynamicAudio") >>
        clip[i \in Nat] == << ccRegisterManagedObject(Addr("game.audioClips", i), "ccDynamicAudioClip"),
                      ccAddExternalDynamicObject(ScriptNameOf(g, "audioclip", i),
                          Addr("game.audioClips", i), "ccDynamicAudioClip") >>
    IN  ForLoop(0, MAX_SOUND_CHANNELS, chan) \o ForLoop(0, g.audioClipCount - 1, clip)

InitAndRegisterCharacters(g) ==
    LET char[i \in Nat] == << ccRegisterManagedObject(Addr("game.chars", i), "ccDynamicCharacter"),
                      ccAddExternalDynamicObject(ScriptNameOf(g, "character", i),
                          Addr("game.chars", i), "ccDynamicCharacter") >>
    IN  ForLoop(0, g.numcharacters - 1, char)

InitAndRegisterDialogs(g) ==
    LET dlg[i \in Nat] == << ccRegisterManagedObject(Addr("scrDialog", i), "ccDynamicDialog") >>
                  \o (IF ScriptNameOf(g, "dialog", i) # ""
                      THEN << ccAddExternalDynamicObject(ScriptNameOf(g, "dialog", i),
                                  Addr("scrDialog", i), "ccDynamicDialog") >>
                      ELSE <<>>)
    IN  ForLoop(0, g.numdialog - 1, dlg)

\* InitAndRegisterDialogOptions without the reference added to the surface
InitAndRegisterDialogOptions_NoReference ==
    << ccRegisterManagedObject(Addr("ccDialogOptionsRendering", 0), "ccDialogOptionsRendering"),
       ccRegisterManagedObject(Addr("dialogOptionsRenderingSurface", 0),
                               "dialogOptionsRenderingSurface") >>

InitAndRegisterDialogOptions ==
    << ccRegisterManagedObject(Addr("ccDialogOptionsRendering", 0), "ccDialogOptionsRendering"),
       ccRegisterManagedObject(Addr("dialogOptionsRenderingSurface", 0),
                               "dialogOptionsRenderingSurface"),
       ccAddObjectReference(Addr("dialogOptionsRenderingSurface", 0)) >>

\* InitAndRegisterGUI registering each GUI before and after it is exported
InitAndRegisterGUI_RegistersTwice(g) ==
    LET gui[i \in Nat] == << ccRegisterManagedObject(Addr("scrGui", i), "ccDynamicGUI"),
                     export_gui_controls(i),
                     ccAddExternalDynamicObject(ScriptNameOf(g, "gui", i),
                         Addr("scrGui", i), "ccDynamicGUI"),
                     ccRegisterManagedObject(Addr("scrGui", i), "ccDynamicGUI") >>
    IN  ForLoop(0, g.numgui - 1, gui)

InitAndRegisterGUI(g) ==
    LET gui[i \in Nat] == << export_gui_controls(i),
                     ccAddExternalDynamicObject(ScriptNameOf(g, "gui", i),
                         Addr("scrGui", i), "ccDynamicGUI"),
                     ccRegisterManagedObject(Addr("scrGui", i), "ccDynamicGUI") >>
    IN  ForLoop(0, g.numgui - 1, gui)

InitAndRegisterInvItems(g) ==
    LET inv[i \in Nat] == << ccRegisterManagedObject(Addr("scrInv", i), "ccDynamicInv") >>
                  \o (IF ScriptNameOf(g, "inventory", i) # ""
                      THEN << ccAddExternalDynamicObject(ScriptNameOf(g, "inventory", i),
                                  Addr("scrInv", i), "ccDynamicInv") >>
                      ELSE <<>>)
    IN  ForLoop(0, MAX_INV - 1, inv)

InitAndRegisterHotspots ==
    LET hs[i \in Nat] == << ccRegisterManagedObject(Addr("scrHotspot", i), "ccDynamicHotspot") >>
    IN  ForLoop(0, MAX_HOTSPOTS - 1, hs)

InitAndRegisterRoomObjects ==
    LET obj[i \in Nat] == << ccRegisterManagedObject(Addr("scrObj", i), "ccDynamicObject") >>
    IN  ForLoop(0, MAX_INIT_SPR - 1, obj)

InitAndRegisterRegions ==
    LET reg[i \in Nat] == << ccRegisterManagedObject(Addr("scrRegion", i), "ccDynamicRegion") >>
    IN  ForLoop(0, MAX_REGIONS - 1, reg)

\* StaticArray::Create(mgr, elem_legacy_size, elem_real_size): the array keeps
\* the manager of its elements and the two element sizes; no element count
\* is among the arguments, and ElemCount stays at -1 (not known)
StaticArray_Create(mgr, elem_legacy_size, elem_real_size) ==
    [ ElemMgr |-> mgr, ElemLegacySize |-> elem_legacy_size,
      ElemRealSize |-> elem_real_size, ElemCount |-> 0 - 1 ]

\* the seven static arrays as RegisterStaticArrays creates them
StaticArrays ==
    [ StaticCharacterArray |->
          StaticArray_Create("ccDynamicCharacter", "sizeof(CharacterInfo)", "sizeof(CharacterInfo)"),
      StaticObjectArray |->
          StaticArray_Create("ccDynamicObject", "sizeof(ScriptObject)", "sizeof(ScriptObject)"),
      StaticGUIArray |->
          StaticArray_Create("ccDynamicGUI", "sizeof(ScriptGUI)", "sizeof(ScriptGUI)"),
      StaticHotspotArray |->
          StaticArray_Create("ccDynamicHotspot", "sizeof(ScriptHotspot)", "sizeof(ScriptHotspot)"),
      StaticRegionArray |->
          StaticArray_Create("ccDynamicRegion", "sizeof(ScriptRegion)", "sizeof(ScriptRegion)"),
      StaticInventoryArray |->
          StaticArray_Create("ccDynamicInv", "sizeof(ScriptInvItem)", "sizeof(ScriptInvItem)"),
      StaticDialogArray |->
          StaticArray_Create("ccDynamicDialog", "sizeof(ScriptDialog)", "sizeof(ScriptDialog)") ]

RegisterStaticArrays ==
    << ccAddExternalStaticArray("character", Addr("game.chars", 0), "StaticCharacterArray"),
       ccAddExternalStaticArray("object", Addr("scrObj", 0), "StaticObjectArray"),
       ccAddExternalStaticArray("gui", Addr("scrGui", 0), "StaticGUIArray"),
       ccAddExternalStaticArray("hotspot", Addr("scrHotspot", 0), "StaticHotspotArray"),
       ccAddExternalStaticArray("region", Addr("scrRegion", 0), "StaticRegionArray"),
       ccAddExternalStaticArray("inventory", Addr("scrInv", 0), "StaticInventoryArray"),
       ccAddExternalStaticArray("dialog", Addr("scrDialog", 0), "StaticDialogArray") >>

\* InitAndRegisterGameEntities: every call it makes into the script system;
\* ver270 is loaded_game_file_version >= kGameVersion_270
InitAndRegisterGameEntities(g, ver270) ==
    InitAndRegisterAudioObjects(g) \o InitAndRegisterCharacters(g)
    \o InitAndRegisterDialogs(g) \o InitAndRegisterDialogOptions
    \o InitAndRegisterGUI(g) \o InitAndRegisterInvItems(g)
    \o InitAndRegisterHotspots \o InitAndRegisterRegions \o InitAndRegisterRoomObjects
    \o RegisterStaticArrays
    \o (IF ver270
        THEN << ccAddExternalStaticObject("player", Addr("_sc_PlayerCharPtr", 0),
                                          "GlobalStaticManager") >>
        ELSE <<>>)

\* The runtime arrays InitGameState allocates, with their element counts
AllocGameObjects(g) ==
    LET actSpsCount == g.numcharacters + MAX_INIT_SPR + 2 IN
    { [name |-> "charextra", count |-> g.numcharacters],
      [name |-> "charcache", count |-> g.numcharacters],
      [name |-> "mls", count |-> g.numcharacters + MAX_INIT_SPR + 1],
      [name |-> "actsps", count |-> actSpsCount],
      [name |-> "actspsbmp", count |-> actSpsCount],
      [name |-> "actspswb", count |-> actSpsCount],
      [name |-> "actspswbbmp", count |-> actSpsCount],
      [name |-> "actspswbcache", count |-> actSpsCount],
      [name |-> "play.charProps", count |-> g.numcharacters] }

\* LoadFontSize doubling when the option is set instead of clear
LoadFontSize_ScaleWhenOptionSet(g, i) ==
    LET fontsize == IF FontFlagSize(i) = 0 THEN 8 ELSE FontFlagSize(i) IN
    IF g.optNoScaleFnt # 0 /\ IsHiRes(g) THEN fontsize * 2 ELSE fontsize

\* The size LoadFonts asks the font renderer for, for slot i
LoadFontSize(g, i) ==
    LET fontsize == IF FontFlagSize(i) = 0 THEN 8 ELSE FontFlagSize(i) IN
    IF g.optNoScaleFnt = 0 /\ IsHiRes(g) THEN fontsize * 2 ELSE fontsize

\* LoadFonts when wloadfont_size fails for the slots in bad: the fonts loaded
\* before the first failure, and whether quitprintf was reached
LoadFonts(g, bad) ==
    LET firstBad == IF \E i \in 0..(g.numfonts - 1) : i \in bad
                    THEN CHOOSE i \in 0..(g.numfonts - 1) :
                            i \in bad /\ \A j \in 0..(i - 1) : j \notin bad
                    ELSE g.numfonts
    IN  [ fonts |-> [i \in 1..firstBad |-> LoadFontSize(g, i - 1)],
          quit  |-> IF firstBad < g.numfonts THEN quitprintf("FontLoadFailed") ELSE "none" ]

\* the override without the test of usetup.override_upscale
ApplyOverride_IgnoreOption(g, override_upscale) ==
    IF g.resolution = "kGameResolution_320x200"
    THEN [g EXCEPT !.resolution = "kGameResolution_640x400"]
    ELSE IF g.resolution = "kGameResolution_320x240"
    THEN [g EXCEPT !.resolution = "kGameResolution_640x480"]
    ELSE g

\* The override of the default resolution (usetup.override_upscale)
ApplyOverride(g, override_upscale) ==
    IF override_upscale
    THEN IF g.resolution = "kGameResolution_320x200"
         THEN [g EXCEPT !.resolution = "kGameResolution_640x400"]
         ELSE IF g.resolution = "kGameResolution_320x240"
         THEN [g EXCEPT !.resolution = "kGameResolution_640x480"]
         ELSE g
    ELSE g

\* the validation without the check for fonts
ValidateGameData_NoFontCheck(g) ==
    IF g.audioClipTypeCount > MAX_AUDIO_TYPES THEN kGameInitErr_TooManyAudioTypes
    ELSE kGameInitErr_NoError

\* the validation that refuses a count equal to the maximum
ValidateGameData_OffByOne(g) ==
    IF g.numfonts = 0 THEN kGameInitErr_NoFonts
    ELSE IF g.audioClipTypeCount >= MAX_AUDIO_TYPES THEN kGameInitErr_TooManyAudioTypes
    ELSE kGameInitErr_NoError

\* Step 1 of InitGameState: the error it returns, or NoError to go on
ValidateGameData(g) ==
    IF g.numfonts = 0 THEN kGameInitErr_NoFonts
    ELSE IF g.audioClipTypeCount > MAX_AUDIO_TYPES THEN kGameInitErr_TooManyAudioTypes
    ELSE kGameInitErr_NoError

\* pl_register_plugins(infos): registers the plugins in declared order and
\* stops at the first one it cannot register. infos[i] is whether the name of
\* the i-th plugin is valid; a registered plugin is known by its place in infos
pl_register_plugins(infos) ==
    LET R[i \in 1..(Len(infos) + 1)] ==
            \* the outcome once the plugins before the i-th are dealt with
            IF i = 1 THEN [err |-> kGameInitErr_NoError, plugins |-> <<>>]
            ELSE LET before == R[i - 1] IN
                 IF before.err # kGameInitErr_NoError THEN before
                 ELSE IF ~infos[i - 1]
                 THEN [err |-> kGameInitErr_PluginNameInvalid, plugins |-> before.plugins]
                 ELSE IF Len(before.plugins) = MAX_PLUGINS
                 THEN [err |-> kGameInitErr_TooManyPlugins, plugins |-> before.plugins]
                 ELSE [err |-> kGameInitErr_NoError,
                       plugins |-> Append(before.plugins, i - 1)]
    IN  R[Len(infos) + 1]

\* the plugin metadata of the loaded game (ents.PluginInfos)
PluginInfoSeqs == UNION { [1..n -> BOOLEAN] : n \in 0..(MAX_PLUGINS + 1) }

\* InitGameState with pl_startup_plugins() called in the place of
\* pl_register_plugins()
NextStmt_StartupFirst(at) ==
    CASE at = "validate"    -> "override"
      [] at = "override"    -> "alloc"
      [] at = "alloc"       -> "entities"
      [] at = "entities"    -> "fonts"
      [] at = "fonts"       -> "scripts"
      [] at = "scripts"     -> "runtime"
      [] at = "runtime"     -> "pl_startup"
      [] at = "pl_register" -> "pl_startup"
      [] at = "pl_startup"  -> "done"

\* The statement that follows each statement of InitGameState in program order
NextStmt(at) ==
    CASE at = "validate"    -> "override"
      [] at = "override"    -> "alloc"
      [] at = "alloc"       -> "entities"
      [] at = "entities"    -> "fonts"
      [] at = "fonts"       -> "scripts"
      [] at = "scripts"     -> "runtime"
      [] at = "runtime"     -> "pl_register"
      [] at = "pl_register" -> "pl_startup"
      [] at = "pl_startup"  -> "done"

-----------------------------------------------------------------------------
\* ScriptMouse: the script's view of the mouse position

\* Bound on the mouse coordinates
MaxMouse == 2
\* the field offsets a script access may carry
MouseOffsets == { 0 - 4, 0, 1, 4, 8 }
MouseValues == { 0 - 1, 0, 9 }

NoScriptError == [text |-> "", arg |-> 0]
\* cc_error(fmt, offset): the error text and the number shown for %d
cc_error(text, arg) == [text |-> text, arg |-> arg]
\* offset is an intptr_t printed with %d: where intptr_t is wider than int the
\* number shown is either half of it
FormattedArgs(offset) == { offset, IF offset < 0 THEN 0 - 1 ELSE 0 }

\* ScriptMouse::ReadInt32: the value returned and the error reported ("" if none)
ScriptMouse_ReadInt32(m, offset) ==
    CASE offset = 0 -> [ret |-> m.x, err |-> ""]
      [] offset = 4 -> [ret |-> m.y, err |-> ""]
      [] OTHER -> [ret |-> 0, err |-> "ScriptMouse: unsupported variable offset %d"]

\* WriteInt32 storing the value into the field instead of refusing
ScriptMouse_WriteInt32_Stores(m, offset, val) ==
    CASE offset = 0 -> [m |-> [m EXCEPT !.x = val], err |-> ""]
      [] offset = 4 -> [m |-> [m EXCEPT !.y = val], err |-> ""]
      [] OTHER -> [m |-> m, err |-> "ScriptMouse: unsupported variable offset %d"]

\* ScriptMouse::WriteInt32: the object afterwards and the error reported
ScriptMouse_WriteInt32(m, offset, val) ==
    CASE offset \in {0, 4} ->
            [m |-> m, err |-> "ScriptMouse: attempt to write readonly variable at offset %d"]
      [] OTHER -> [m |-> m, err |-> "ScriptMouse: unsupported variable offset %d"]

NoMouseCall == [op |-> "none", offset |-> 0, val |-> 0, ret |-> 0, err |-> "", was |-> <<>>]

MouseIdle ==
    /\ mouse = [x |-> 0, y |-> 0]
    /\ ccError = NoScriptError
    /\ lastMouse = NoMouseCall

-----------------------------------------------------------------------------
\* Static array exporter

\* Bounds on the exported arrays
MaxStride == 3
MaxCount == 3
ArrayBases == { 100, 200 }

\* exportArray: the export bound to the symbol
exportArray(symbolName, baseAddress, typeDescriptor, elementStride, elementCount) ==
    [ symbolName |-> symbolName, baseAddress |-> baseAddress,
      typeDescriptor |-> typeDescriptor, elementStride |-> elementStride,
      elementCount |-> elementCount ]

\* the index access with the bound taken inclusive
IndexAccess_InclusiveBound(arr, index) ==
    IF index >= 0 /\ index <= arr.elementCount
    THEN [ok |-> TRUE, address |-> arr.baseAddress + index * arr.elementStride, err |-> ""]
    ELSE [ok |-> FALSE, address |-> 0, err |-> "IndexOutOfRange"]

\* Index access at scripting time: baseAddress + index*elementStride,
\* bounds-checked against elementCount
IndexAccess(arr, index) ==
    IF index >= 0 /\ index < arr.elementCount
    THEN [ok |-> TRUE, address |-> arr.baseAddress + index * arr.elementStride, err |-> ""]
    ELSE [ok |-> FALSE, address |-> 0, err |-> "IndexOutOfRange"]

NoIndex == [index |-> 0, ok |-> FALSE, address |-> 0, err |-> "none"]

ArraysIdle ==
    /\ statArr = exportArray("character", 100, "ccDynamicCharacter", 1, 0)
    /\ lastIndex = NoIndex

-----------------------------------------------------------------------------
\* Room fixups (declared in roomstruct.h)

\* Bounds on the rooms
MaxBgFrames == 2
MaxMaskRes == 2
RoomSizes == { <<4, 2>>, <<5, 3>> }
RoomResolutionTypes == { "kRoomResolution_Real", "kRoomResolution_Low",
                         "kRoomResolution_High", "kRoomResolution_OverHigh" }
MaskNames == { "HotspotMask", "RegionMask", "WalkAreaMask", "WalkBehindMask" }

\* a bitmap object: its identity and its size; NullBmp is the empty PBitmap
Bmp(id, w, h) == [id |-> id, w |-> w, h |-> h]
NullBmp == Bmp(0, 0, 0)

\* FixBitmap allocating a copy even when the size already is the wanted one
FixBitmap_AlwaysCopies(bmp, dst_width, dst_height, fresh) ==
    Bmp(fresh, dst_width, dst_height)

\* FixBitmap: the old bitmap if it has the wanted size, else a new one of
\* that size (with the identity fresh)
FixBitmap(bmp, dst_width, dst_height, fresh) ==
    IF bmp.w = dst_width /\ bmp.h = dst_height
    THEN bmp
    ELSE Bmp(fresh, dst_width, dst_height)

\* the position of a mask among the four, for the identities of new bitmaps
MaskSlot(name) ==
    CASE name = "HotspotMask" -> 0 [] name = "RegionMask" -> 1
      [] name = "WalkAreaMask" -> 2 [] name = "WalkBehindMask" -> 3

\* FixRoomMasks: every existing mask gets the size of the background divided
\* by MaskResolution; the room and the allocation counter afterwards
FixRoomMasks(r, next) ==
    LET bkg == r.BgFrames[1]
        masks == [ name \in MaskNames |->
                     IF r.masks[name] = NullBmp
                     THEN NullBmp
                     ELSE FixBitmap(r.masks[name], bkg.w \div r.MaskResolution,
                                    bkg.h \div r.MaskResolution, next + MaskSlot(name)) ]
    IN  [ room |-> [r EXCEPT !.masks = masks],
          next |-> IF masks = r.masks THEN next ELSE next + 4 ]

\* the room with every background frame and every existing mask replaced by
\* a bitmap of twice the width and height
Doubled(r, next) ==
    [ r EXCEPT
        !.BgFrames = [ i \in 1..Len(r.BgFrames) |->
                         FixBitmap(r.BgFrames[i], 2 * r.BgFrames[i].w,
                                   2 * r.BgFrames[i].h, next + i - 1) ],
        !.masks = [ name \in MaskNames |->
                      IF r.masks[name] = NullBmp
                      THEN NullBmp
                      ELSE FixBitmap(r.masks[name], 2 * r.masks[name].w,
                                     2 * r.masks[name].h,
                                     next + Len(r.BgFrames) + MaskSlot(name)) ],
        !.upscaled = TRUE ]

\* UpscaleRoomBackground without the guard against a second run
UpscaleRoomBackground_NoGuard(r, game_is_hires, next) ==
    IF r.legacyResolution = "kRoomResolution_Low" /\ game_is_hires
    THEN [ room |-> Doubled(r, next), next |-> next + Len(r.BgFrames) + 4 ]
    ELSE [ room |-> r, next |-> next ]

\* UpscaleRoomBackground: a room tagged low-res is doubled for a hi-res game,
\* unless it was doubled before
UpscaleRoomBackground(r, game_is_hires, next) ==
    IF r.legacyResolution = "kRoomResolution_Low" /\ game_is_hires /\ ~r.upscaled
    THEN [ room |-> Doubled(r, next), next |-> next + Len(r.BgFrames) + 4 ]
    ELSE [ room |-> r, next |-> next ]

\* the rooms the loader may have read: size is the background size, maskSize
\* gives for each mask "none", "fit" (background / MaskResolution) or "odd"
LoadedRoom(tag, maskRes, frames, size, maskSize) ==
    [ legacyResolution |-> tag,
      MaskResolution |-> maskRes,
      BgFrames |-> [ i \in 1..frames |-> Bmp(i, size[1], size[2]) ],
      masks |-> [ name \in MaskNames |->
                    CASE maskSize[name] = "none" -> NullBmp
                      [] maskSize[name] = "fit" ->
                           Bmp(11 + MaskSlot(name), size[1] \div maskRes, size[2] \div maskRes)
                      [] OTHER -> Bmp(11 + MaskSlot(name), size[1] + 1, size[2] + 1) ],
      upscaled |-> FALSE ]

NoFixup == [op |-> "none", before |-> <<>>, nextBefore |-> 0, upscales |-> 0]

RoomIdle ==
    /\ room = LoadedRoom("kRoomResolution_Real", 1, 1, <<4, 2>>,
                         [name \in MaskNames |-> "none"])
    /\ nextBmp = 21
    /\ lastRoom = NoFixup

-----------------------------------------------------------------------------
\* Managed object registry

\* Bounds on what the scripts do
MaxRefs == 2
MaxDynamic == 1

\* whether the object at the address was allocated with new: the rendering
\* surface of the dialog options and the objects the scripts create are;
\* the entity arrays and ccDialogOptionsRendering are not
IsDynamic(addr) == addr.arr \in { "dialogOptionsRenderingSurface", "scriptObject" }

\* the entries of the pool registered for the address and not released
EntriesAt(p, addr) == { e \in p : e.addr = addr /\ e.state # "Released" }

\* registerManagedObject handing out the same handle again and again
registerManagedObject_SameHandle(p, next, addr, mgr) ==
    IF EntriesAt(p, addr) # {}
    THEN [ pool |-> p, next |-> next ]
    ELSE [ pool |-> p \cup { [ handle |-> next, addr |-> addr, mgr |-> mgr, refCount |-> 0,
                               held |-> 0, state |-> "Registered" ] },
           next |-> next ]

\* registerManagedObject(address, typeDescriptor): creates a handle for the
\* address, or reuses the one it has
registerManagedObject(p, next, addr, mgr) ==
    IF EntriesAt(p, addr) # {}
    THEN [ pool |-> p, next |-> next ]
    ELSE [ pool |-> p \cup { [ handle |-> next, addr |-> addr, mgr |-> mgr, refCount |-> 0,
                               held |-> 0, state |-> "Registered" ] },
           next |-> next + 1 ]

\* addObjectReference(handle); byScript says whether a script holds the new
\* reference (the engine holds it otherwise)
addObjectReference(p, addr, byScript) ==
    { IF e \in EntriesAt(p, addr)
      THEN [ e EXCEPT !.refCount = @ + 1,
                      !.held = IF byScript THEN @ + 1 ELSE @,
                      !.state = "Referenced" ]
      ELSE e : e \in p }

\* a script gives up a reference it holds: at zero the destroy hook of a
\* dynamically allocated object is invoked and the handle is released
releaseObjectReference(p, addr) ==
    { IF e \in EntriesAt(p, addr)
      THEN [ e EXCEPT !.refCount = @ - 1,
                      !.held = @ - 1,
                      !.state = IF e.refCount - 1 = 0 /\ IsDynamic(e.addr)
                                THEN "Released" ELSE @ ]
      ELSE e : e \in p }

\* the objects a script takes and drops references to
ScriptVisible ==
    { Addr("dialogOptionsRenderingSurface", 0), Addr("game.chars", 0) }
    \cup { Addr("scriptObject", k) : k \in 0..(MaxDynamic - 1) }

RegistryIdle ==
    /\ pool = {}
    /\ nextHandle = 1
    /\ initQueue = <<>>
    /\ disposed = {}

ExtIdle == MouseIdle /\ ArraysIdle /\ RoomIdle /\ RegistryIdle

-----------------------------------------------------------------------------
\* Inputs of the script calls

PropNames  == { sHp, shp, sHP, sNm, sOk, szz }
IntValues  == { 0 - 12, 0, 7 }
TextValues == { sEmpty, sab, sabc }
DefValues  == { sdef, sQ }

\* the authored properties an entity may have been loaded with
StaticMaps ==
    { {},
      { [key |-> sHP, val |-> s5] },
      { [key |-> sNm, val |-> sab] },
      { [key |-> sHP, val |-> s5], [key |-> sNm, val |-> sab], [key |-> sOk, val |-> sEmpty] } }

\* The engine before InitGameState has run on game g
GameLoaded(g, override_upscale) ==
    /\ game = g
    /\ loadedRes = g.resolution
    /\ usetup = [override_upscale |-> override_upscale]
    /\ pc = "validate"
    /\ ret = "running"
    /\ allocs = {}
    /\ sysCalls = <<>>
    /\ fonts = <<>>
    /\ scripts = "none"
    /\ runtime = FALSE
    /\ plugins = <<>>
    /\ plRegErr = "uncalled"
    /\ plStarted = <<>>
    /\ log = <<>>

\* the game the property store is exercised in
DemoGame == [ numfonts |-> 1, audioClipTypeCount |-> 1,
              resolution |-> "kGameResolution_320x200", numcharacters |-> 1,
              numdialog |-> 0, numgui |-> 0, audioClipCount |-> 0,
              unnamed |-> FALSE, optNoScaleFnt |-> 0 ]

NoCall == [op |-> "none", property |-> sEmpty, int |-> 0, str |-> sEmpty, ok |-> FALSE,
           arg |-> sEmpty]

PropsInit ==
    /\ ExtIdle
    /\ st_prop \in StaticMaps
    /\ rt_prop = {}
    /\ bufer = sQ
    /\ last = NoCall
    /\ quitmsg = "none"
    /\ GameLoaded(DemoGame, FALSE)

\* a script (or the engine) resolves a value through the three layers
GetPropertyValue(name, def) ==
    /\ quitmsg = "none"
    /\ last' = [op |-> "get_property_value", property |-> name, int |-> 0,
                str |-> get_property_value(st_prop, rt_prop, name, def), ok |-> TRUE,
                arg |-> def]
    /\ UNCHANGED <<st_prop, rt_prop, bufer, quitmsg, initVars, extVars>>

GetIntProperty(name) ==
    /\ quitmsg = "none"
    /\ LET r == get_int_property(st_prop, rt_prop, name) IN
        /\ quitmsg' = r.quit
        /\ last' = [op |-> "get_int_property", property |-> name, int |-> r.ret,
                    str |-> sEmpty, ok |-> (r.quit = "none"), arg |-> sEmpty]
    /\ UNCHANGED <<st_prop, rt_prop, bufer, initVars, extVars>>

GetTextProperty(name) ==
    /\ quitmsg = "none"
    /\ LET r == get_text_property(st_prop, rt_prop, name, bufer) IN
        /\ quitmsg' = r.quit
        /\ bufer' = r.bufer
        /\ last' = [op |-> "get_text_property", property |-> name, int |-> 0,
                    str |-> sEmpty, ok |-> (r.quit = "none"), arg |-> sEmpty]
    /\ UNCHANGED <<st_prop, rt_prop, initVars, extVars>>

SetIntProperty(name, value) ==
    /\ quitmsg = "none"
    /\ LET r == set_int_property(rt_prop, name, value) IN
        /\ quitmsg' = r.quit
        /\ rt_prop' = r.rt
        /\ last' = [op |-> "set_int_property", property |-> name, int |-> value,
                    str |-> sEmpty, ok |-> r.ret, arg |-> sEmpty]
    /\ UNCHANGED <<st_prop, bufer, initVars, extVars>>

SetTextProperty(name, value) ==
    /\ quitmsg = "none"
    /\ LET r == set_text_property(rt_prop, name, value) IN
        /\ quitmsg' = r.quit
        /\ rt_prop' = r.rt
        /\ last' = [op |-> "set_text_property", property |-> name, int |-> 0,
                    str |-> sEmpty, ok |-> r.ret, arg |-> value]
    /\ UNCHANGED <<st_prop, bufer, initVars, extVars>>

PropsNext ==
    \/ \E name \in PropNames, def \in DefValues : GetPropertyValue(name, def)
    \/ \E name \in PropNames : GetIntProperty(name)
    \/ \E name \in PropNames : GetTextProperty(name)
    \/ \E name \in PropNames, value \in IntValues : SetIntProperty(name, value)
    \/ \E name \in PropNames, value \in TextValues : SetTextProperty(name, value)

SpecProps == PropsInit /\ [][PropsNext]_vars

-----------------------------------------------------------------------------
\* InitGameState, statement by statement

Init ==
    /\ ExtIdle
    /\ st_prop = {}
    /\ rt_prop = {}
    /\ bufer = sQ
    /\ last = NoCall
    /\ quitmsg = "none"
    /\ \E g \in Games, override_upscale \in BOOLEAN : GameLoaded(g, override_upscale)

\* InitGameState returns err
Return(err) ==
    /\ ret' = err
    /\ pc' = "done"

\* 1. Check that the loaded data is valid
Validate ==
    /\ pc = "validate" /\ quitmsg = "none"
    /\ log' = Append(log, "validate")
    /\ IF ValidateGameData(game) # kGameInitErr_NoError
       THEN Return(ValidateGameData(game))
       ELSE pc' = NextStmt("validate") /\ ret' = ret
    /\ UNCHANGED <<game, loadedRes, usetup, allocs, sysCalls, fonts, scripts, runtime, plugins,
                   plRegErr, plStarted, quitmsg, propVars, extVars>>

\* 2. Apply overriding config settings
Override ==
    /\ pc = "override" /\ quitmsg = "none"
    /\ log' = Append(log, "override")
    /\ game' = ApplyOverride(game, usetup.override_upscale)
    /\ pc' = NextStmt("override")
    /\ UNCHANGED <<loadedRes, usetup, ret, allocs, sysCalls, fonts, scripts, runtime, plugins,
                   plRegErr, plStarted, quitmsg, propVars, extVars>>

\* 3. Allocate game objects
Alloc ==
    /\ pc = "alloc" /\ quitmsg = "none"
    /\ log' = Append(log, "alloc")
    /\ allocs' = allocs \cup AllocGameObjects(game)
    /\ pc' = NextStmt("alloc")
    /\ UNCHANGED <<game, loadedRes, usetup, ret, sysCalls, fonts, scripts, runtime, plugins,
                   plRegErr, plStarted, quitmsg, propVars, extVars>>

\* 3. ... and init and register them in the script system
Entities(ver270) ==
    /\ pc = "entities" /\ quitmsg = "none"
    /\ log' = Append(log, "entities")
    /\ sysCalls' = sysCalls \o InitAndRegisterGameEntities(game, ver270)
    /\ pc' = NextStmt("entities")
    /\ UNCHANGED <<game, loadedRes, usetup, ret, allocs, fonts, scripts, runtime, plugins,
                   plRegErr, plStarted, quitmsg, propVars, extVars>>

\* LoadFonts(); bad are the slots no renderer can load a file for
Fonts(bad) ==
    /\ pc = "fonts" /\ quitmsg = "none"
    /\ log' = Append(log, "fonts")
    /\ fonts' = LoadFonts(game, bad).fonts
    /\ quitmsg' = LoadFonts(game, bad).quit
    /\ pc' = NextStmt("fonts")
    /\ UNCHANGED <<game, loadedRes, usetup, ret, allocs, sysCalls, scripts, runtime, plugins,
                   plRegErr, plStarted, propVars, extVars>>

\* step 4 without the return on a failed link
Scripts_IgnoreLinkFailure(linked) ==
    /\ pc = "scripts" /\ quitmsg = "none"
    /\ log' = Append(log, "scripts")
    /\ scripts' = IF linked THEN "linked" ELSE "failed"
    /\ pc' = NextStmt("scripts") /\ ret' = ret
    /\ UNCHANGED <<game, loadedRes, usetup, allocs, sysCalls, fonts, runtime, plugins,
                   plRegErr, plStarted, quitmsg, propVars, extVars>>

\* 4. Create game scripts; linked is whether create_global_script succeeded
Scripts(linked) ==
    /\ pc = "scripts" /\ quitmsg = "none"
    /\ log' = Append(log, "scripts")
    /\ scripts' = IF linked THEN "linked" ELSE "failed"
    /\ IF ~linked
       THEN Return(kGameInitErr_ScriptLinkFailed)
       ELSE pc' = NextStmt("scripts") /\ ret' = ret
    /\ UNCHANGED <<game, loadedRes, usetup, allocs, sysCalls, fonts, runtime, plugins,
                   plRegErr, plStarted, quitmsg, propVars, extVars>>

\* 5. and 7. Initialize runtime variables and the state of certain game objects
Runtime ==
    /\ pc = "runtime" /\ quitmsg = "none"
    /\ log' = Append(log, "runtime")
    /\ runtime' = TRUE
    /\ pc' = NextStmt("runtime")
    /\ UNCHANGED <<game, loadedRes, usetup, ret, allocs, sysCalls, fonts, scripts, plugins,
                   plRegErr, plStarted, quitmsg, propVars, extVars>>

\* 8. pl_register_plugins(ents.PluginInfos); what it returns is not looked at
PlRegister(infos) ==
    /\ pc = "pl_register" /\ quitmsg = "none"
    /\ log' = Append(log, "pl_register")
    /\ plugins' = pl_register_plugins(infos).plugins
    /\ plRegErr' = pl_register_plugins(infos).err
    /\ pc' = NextStmt("pl_register")
    /\ UNCHANGED <<game, loadedRes, usetup, ret, allocs, sysCalls, fonts, scripts, runtime,
                   plStarted, quitmsg, propVars, extVars>>

\* 8. pl_startup_plugins(); return kGameInitErr_NoError
PlStartup ==
    /\ pc = "pl_startup" /\ quitmsg = "none"
    /\ log' = Append(log, "pl_startup")
    /\ plStarted' = plugins
    /\ Return(kGameInitErr_NoError)
    /\ UNCHANGED <<game, loadedRes, usetup, allocs, sysCalls, fonts, scripts, runtime, plugins,
                   plRegErr, quitmsg, propVars, extVars>>

Next ==
    \/ Validate
    \/ Override
    \/ Alloc
    \/ \E ver270 \in BOOLEAN : Entities(ver270)
    \/ \E bad \in SUBSET (0..(MaxFonts - 1)) : Fonts(bad)
    \/ \E linked \in BOOLEAN : Scripts(linked)
    \/ Runtime
    \/ \E infos \in PluginInfoSeqs : PlRegister(infos)
    \/ PlStartup

Spec == Init /\ [][Next]_vars

-----------------------------------------------------------------------------
\* Script accesses to the fields of the mouse object

\* the property store and InitGameState at rest
EngineIdle ==
    /\ st_prop = {}
    /\ rt_prop = {}
    /\ bufer = sQ
    /\ last = NoCall
    /\ quitmsg = "none"
    /\ GameLoaded(DemoGame, FALSE)

MouseInit ==
    /\ EngineIdle
    /\ mouse \in [x : 0..MaxMouse, y : 0..MaxMouse]
    /\ ccError = NoScriptError
    /\ lastMouse = NoMouseCall
    /\ ArraysIdle
    /\ RoomIdle
    /\ RegistryIdle

\* the interpreter reads a field of the mouse
ReadInt32(offset) ==
    /\ LET r == ScriptMouse_ReadInt32(mouse, offset) IN
        /\ lastMouse' = [op |-> "ReadInt32", offset |-> offset, val |-> 0, ret |-> r.ret,
                         err |-> r.err, was |-> mouse]
        /\ IF r.err = ""
           THEN ccError' = ccError
           ELSE \E shown \in FormattedArgs(offset) : ccError' = cc_error(r.err, shown)
    /\ UNCHANGED <<mouse, propVars, initVars, quitmsg, arrVars, roomVars, regVars>>

\* the interpreter writes a field of the mouse
WriteInt32(offset, val) ==
    /\ LET r == ScriptMouse_WriteInt32(mouse, offset, val) IN
        /\ mouse' = r.m
        /\ lastMouse' = [op |-> "WriteInt32", offset |-> offset, val |-> val, ret |-> 0,
                         err |-> r.err, was |-> mouse]
        /\ IF r.err = ""
           THEN ccError' = ccError
           ELSE \E shown \in FormattedArgs(offset) : ccError' = cc_error(r.err, shown)
    /\ UNCHANGED <<propVars, initVars, quitmsg, arrVars, roomVars, regVars>>

MouseNext ==
    \/ \E offset \in MouseOffsets : ReadInt32(offset)
    \/ \E offset \in MouseOffsets, val \in MouseValues : WriteInt32(offset, val)

SpecMouse == MouseInit /\ [][MouseNext]_vars

-----------------------------------------------------------------------------
\* Script accesses to an exported static array

ArraysInit ==
    /\ EngineIdle
    /\ MouseIdle
    /\ RoomIdle
    /\ RegistryIdle
    /\ \E base \in ArrayBases, stride \in 1..MaxStride, count \in 0..MaxCount :
          statArr = exportArray("character", base, "ccDynamicCharacter", stride, count)
    /\ lastIndex = NoIndex

\* the script evaluates statArr[index]
IndexArray(index) ==
    /\ LET r == IndexAccess(statArr, index) IN
          lastIndex' = [index |-> index, ok |-> r.ok, address |-> r.address, err |-> r.err]
    /\ UNCHANGED <<statArr, propVars, initVars, quitmsg, mouseVars, roomVars, regVars>>

ArraysNext == \E index \in (0 - 2)..(MaxCount + 2) : IndexArray(index)

SpecArrays == ArraysInit /\ [][ArraysNext]_vars

-----------------------------------------------------------------------------
\* The fixups of a loaded room

RoomInit ==
    /\ st_prop = {} /\ rt_prop = {} /\ bufer = sQ /\ last = NoCall /\ quitmsg = "none"
    /\ \E res \in { "kGameResolution_320x200", "kGameResolution_640x400" } :
          GameLoaded([DemoGame EXCEPT !.resolution = res], FALSE)
    /\ MouseIdle
    /\ ArraysIdle
    /\ RegistryIdle
    /\ \E tag \in RoomResolutionTypes, maskRes \in 1..MaxMaskRes, frames \in 1..MaxBgFrames,
          size \in RoomSizes, maskSize \in [MaskNames -> {"none", "fit", "odd"}] :
          room = LoadedRoom(tag, maskRes, frames, size, maskSize)
    /\ nextBmp = 21
    /\ lastRoom = NoFixup

\* the loader calls UpscaleRoomBackground(room, game.IsHiRes())
RoomUpscale ==
    /\ LET r == UpscaleRoomBackground(room, IsHiRes(game), nextBmp) IN
        /\ room' = r.room
        /\ nextBmp' = r.next
    /\ lastRoom' = [op |-> "UpscaleRoomBackground", before |-> room, nextBefore |-> nextBmp,
                    upscales |-> IF lastRoom.upscales < 2 THEN lastRoom.upscales + 1 ELSE 2]
    /\ UNCHANGED <<propVars, initVars, quitmsg, mouseVars, arrVars, regVars>>

\* the loader calls FixRoomMasks(room)
RoomFixMasks ==
    /\ LET r == FixRoomMasks(room, nextBmp) IN
        /\ room' = r.room
        /\ nextBmp' = r.next
    /\ lastRoom' = [op |-> "FixRoomMasks", before |-> room, nextBefore |-> nextBmp,
                    upscales |-> lastRoom.upscales]
    /\ UNCHANGED <<propVars, initVars, quitmsg, mouseVars, arrVars, regVars>>

RoomNext == RoomUpscale \/ RoomFixMasks

SpecRoom == RoomInit /\ [][RoomNext]_vars

-----------------------------------------------------------------------------
\* The registry during InitAndRegisterGameEntities and the scripts after it

\* the games whose entities are registered
RegistryGames ==
    { DemoGame,
      [DemoGame EXCEPT !.numdialog = 1, !.numgui = 1, !.audioClipCount = 1] }

RegistryInit ==
    /\ st_prop = {} /\ rt_prop = {} /\ bufer = sQ /\ last = NoCall /\ quitmsg = "none"
    /\ \E g \in RegistryGames :
          /\ GameLoaded(g, FALSE)
          /\ initQueue = InitAndRegisterGameEntities(g, TRUE)
    /\ MouseIdle
    /\ ArraysIdle
    /\ RoomIdle
    /\ pool = {}
    /\ nextHandle = 1
    /\ disposed = {}

\* InitAndRegisterGameEntities makes its next call into the script system
EngineCall ==
    /\ initQueue # <<>>
    /\ LET call == Head(initQueue) IN
        CASE call.fn = "ccRegisterManagedObject" ->
                LET r == registerManagedObject(pool, nextHandle, call.addr, call.mgr) IN
                    pool' = r.pool /\ nextHandle' = r.next
          [] call.fn = "ccAddObjectReference" ->
                pool' = addObjectReference(pool, call.addr, FALSE) /\ nextHandle' = nextHandle
          [] OTHER -> pool' = pool /\ nextHandle' = nextHandle
    /\ initQueue' = Tail(initQueue)
    /\ UNCHANGED <<disposed, propVars, initVars, quitmsg, mouseVars, arrVars, roomVars>>

\* a script creates a managed object (such as the string of
\* get_text_property_dynamic_string)
ScriptNew(k) ==
    /\ initQueue = <<>>
    /\ \A e \in pool : e.addr # Addr("scriptObject", k)
    /\ \A j \in 0..(k - 1) : \E e \in pool : e.addr = Addr("scriptObject", j)
    /\ LET r == registerManagedObject(pool, nextHandle, Addr("scriptObject", k), "ScriptString") IN
            pool' = r.pool /\ nextHandle' = r.next
    /\ UNCHANGED <<initQueue, disposed, propVars, initVars, quitmsg, mouseVars, arrVars,
                   roomVars>>

\* a script stores a pointer to the object
ScriptAddRef(addr) ==
    /\ initQueue = <<>>
    /\ \E e \in EntriesAt(pool, addr) : e.held < MaxRefs
    /\ pool' = addObjectReference(pool, addr, TRUE)
    /\ UNCHANGED <<nextHandle, initQueue, disposed, propVars, initVars, quitmsg, mouseVars,
                   arrVars, roomVars>>

\* a script drops a pointer it holds
ScriptRelease(addr) ==
    /\ initQueue = <<>>
    /\ \E e \in EntriesAt(pool, addr) : e.held > 0
    /\ pool' = releaseObjectReference(pool, addr)
    /\ disposed' = disposed \cup { e.handle : e \in { x \in pool' \ pool : x.state = "Released" } }
    /\ UNCHANGED <<nextHandle, initQueue, propVars, initVars, quitmsg, mouseVars, arrVars,
                   roomVars>>

RegistryNext ==
    \/ EngineCall
    \/ \E k \in 0..(MaxDynamic - 1) : ScriptNew(k)
    \/ \E addr \in ScriptVisible : ScriptAddRef(addr)
    \/ \E addr \in ScriptVisible : ScriptRelease(addr)

SpecRegistry == RegistryInit /\ [][RegistryNext]_vars

-----------------------------------------------------------------------------
\* Properties of the property store (checked under SpecProps)

\* the entries of a map stored under the name, whatever the letter case
EntriesFor(map, name) == { e \in map : ToLower(e.key) = ToLower(name) }
\* the schema's declaration of the name, if any
Declared(name) == { d \in propSchema : ToLower(d.Name) = ToLower(name) }
\* the accessor's type disagrees with the declared type
WrongAccessor(op, name) ==
    \E d \in Declared(name) :
        IF op \in {"get_text_property", "set_text_property"}
        THEN d.Type # kPropertyString
        ELSE d.Type = kPropertyString
Getters == {"get_int_property", "get_text_property"}
Setters == {"set_int_property", "set_text_property"}
\* the layered value the store is to resolve a name to
Layered(st, rt, name, def) ==
    IF EntriesFor(rt, name) # {} THEN { e.val : e \in EntriesFor(rt, name) }
    ELSE IF EntriesFor(st, name) # {} THEN { e.val : e \in EntriesFor(st, name) }
    ELSE { def }

\* C1: get_property_value returns the runtime override if the runtime map has
\* the key, else the static value if the static map has the key, else the
\* supplied default: for the call just made, and for every name and default
\* in every pair of maps the engine reaches.
C1_ValuePrecedence ==
    /\ last.op = "get_property_value"
         => last.str \in Layered(st_prop, rt_prop, last.property, last.arg)
    /\ \A name \in PropNames, def \in DefValues :
         get_property_value(st_prop, rt_prop, name, def)
            \in Layered(st_prop, rt_prop, name, def)

\* C1 witness: all three layers hold different values and the override won
C1_Witness ==
    /\ last.op = "get_property_value"
    /\ last.property = shp
    /\ \E r \in EntriesFor(rt_prop, shp), a \in EntriesFor(st_prop, shp) :
          r.val # a.val /\ r.val # last.arg /\ a.val # last.arg /\ last.str = r.val

\* C2: a getter called with a name the schema does not declare ends with the
\* UnknownProperty error, and the output buffer and both maps stay as they were.
C2_UnknownPropertyFails ==
    [][ ( /\ quitmsg = "none"
          /\ last'.op \in Getters
          /\ Declared(last'.property) = {} )
        => ( /\ quitmsg' = "UnknownProperty"
             /\ ~last'.ok
             /\ bufer' = bufer /\ rt_prop' = rt_prop /\ st_prop' = st_prop ) ]_vars

\* C2 witness: get_text_property was refused an undeclared name while overrides exist
C2_Witness ==
    /\ last.op = "get_text_property"
    /\ Declared(last.property) = {}
    /\ quitmsg = "UnknownProperty"
    /\ rt_prop # {}

\* C3: the text getter on a property not declared string, and the integer
\* getter on a property declared string, end with the TypeMismatch error and
\* hand no value to the caller (the buffer is not written, the call did not
\* return).
C3_TypeMismatchFails ==
    [][ ( /\ quitmsg = "none"
          /\ last'.op \in Getters
          /\ WrongAccessor(last'.op, last'.property) )
        => ( /\ quitmsg' = "TypeMismatch"
             /\ ~last'.ok
             /\ bufer' = bufer ) ]_vars

\* C3 witness: the integer getter was refused a string property that has a
\* numeric-looking override to coerce
C3_Witness ==
    /\ last.op = "get_int_property"
    /\ WrongAccessor("get_int_property", last.property)
    /\ quitmsg = "TypeMismatch"
    /\ EntriesFor(rt_prop, last.property) # {}

\* C4: a setter called with an undeclared name, or with a name whose declared
\* type disagrees with the setter, does not succeed and leaves the runtime
\* override map exactly as it was.
C4_RejectedSetKeepsMap ==
    [][ ( /\ quitmsg = "none"
          /\ last'.op \in Setters
          /\ (Declared(last'.property) = {} \/ WrongAccessor(last'.op, last'.property)) )
        => ( /\ ~last'.ok
             /\ quitmsg' \in {"UnknownProperty", "TypeMismatch"}
             /\ rt_prop' = rt_prop ) ]_vars

\* C4 witness: set_int_property was refused while the map held an override
C4_Witness ==
    /\ last.op = "set_int_property"
    /\ (Declared(last.property) = {} \/ WrongAccessor("set_int_property", last.property))
    /\ ~last.ok
    /\ rt_prop # {}

\* C5: a property-store error does not end the process: the setter returns
\* false to its caller and the engine goes on.
C5_ErrorReturnsFalse ==
    ( /\ last.op \in Setters
      /\ (Declared(last.property) = {} \/ WrongAccessor(last.op, last.property)) )
    => ( quitmsg = "none" /\ last.ok = FALSE )

-----------------------------------------------------------------------------
\* Properties of InitGameState (checked under Spec)

\* InitGameState has returned to its caller
Returned == pc = "done" /\ quitmsg = "none"
\* nothing was allocated and nothing was handed to the script system
NothingAllocatedOrRegistered == allocs = {} /\ sysCalls = <<>>
\* the calls of sysCalls that register an object, a symbol or a static array
Registrations ==
    SelectSeq(sysCalls, LAMBDA c : c.fn \in {"ccRegisterManagedObject",
        "ccAddExternalDynamicObject", "ccAddExternalStaticArray",
        "ccAddExternalStaticObject"})
StepsOfSuccess ==
    << "validate", "override", "alloc", "entities", "fonts", "scripts", "runtime",
       "pl_register", "pl_startup" >>
\* step a was taken, and before step b (if b was taken at all)
Before(a, b) ==
    \E i \in 1..Len(log) : log[i] = a /\ \A j \in 1..i : log[j] # b

\* C6: with numfonts = 0 InitGameState returns NoFonts, and no runtime array is
\* allocated and nothing is registered with the script system, at the return
\* or at any other moment.
C6_NoFontsBeforeAllocation ==
    game.numfonts = 0 =>
        /\ NothingAllocatedOrRegistered
        /\ Registrations = <<>>
        /\ pc \in {"validate", "done"}
        /\ (pc = "done" => ret = kGameInitErr_NoFonts)

\* C6 witness: InitGameState has returned NoFonts for a game with characters
C6_Witness ==
    /\ Returned
    /\ game.numfonts = 0
    /\ game.numcharacters > 0
    /\ ret = kGameInitErr_NoFonts

\* C7: with at least one font InitGameState returns TooManyAudioTypes exactly
\* when audioClipTypeCount > MAX_AUDIO_TYPES (a count equal to the maximum is
\* accepted), and then nothing was allocated or registered.
C7_TooManyAudioTypes ==
    /\ (game.numfonts > 0 /\ Returned)
          => (ret = kGameInitErr_TooManyAudioTypes
                <=> game.audioClipTypeCount > MAX_AUDIO_TYPES)
    /\ ret = kGameInitErr_TooManyAudioTypes
          => (game.numfonts > 0 /\ NothingAllocatedOrRegistered /\ log = <<"validate">>)
    /\ (game.numfonts > 0 /\ game.audioClipTypeCount > MAX_AUDIO_TYPES)
          => (NothingAllocatedOrRegistered /\ pc \in {"validate", "done"})

\* C7 witness: one audio type more than the maximum was refused
C7_Witness ==
    /\ Returned
    /\ game.numfonts > 0
    /\ game.audioClipTypeCount = MAX_AUDIO_TYPES + 1
    /\ ret = kGameInitErr_TooManyAudioTypes

\* C8: once the registration of the plugins has failed, InitGameState returns
\* that error, never NoError, and starts no plugin.
C8_PluginFailureAborts ==
    plRegErr \in {kGameInitErr_TooManyPlugins, kGameInitErr_PluginNameInvalid}
        => /\ plStarted = <<>>
           /\ (\A i \in 1..Len(log) : log[i] # "pl_startup")
           /\ (pc = "done" => ret = plRegErr)

\* C9: a failed link of the global script makes InitGameState return
\* ScriptLinkFailed (and nothing else does); the runtime variables are then
\* not initialized, no plugin is registered or started, and what was allocated,
\* registered and loaded before stays.
C9_ScriptLinkFailed ==
    /\ scripts = "failed" <=> ret = kGameInitErr_ScriptLinkFailed
    /\ scripts = "failed" =>
        /\ Returned
        /\ runtime = FALSE
        /\ plugins = <<>> /\ plRegErr = "uncalled" /\ plStarted = <<>>
        /\ log = << "validate", "override", "alloc", "entities", "fonts", "scripts" >>
        /\ allocs = AllocGameObjects(game)
        /\ \E ver270 \in BOOLEAN : sysCalls = InitAndRegisterGameEntities(game, ver270)
        /\ Len(fonts) = game.numfonts

\* C9 witness: the link failed for a game with characters, GUIs and dialogs
C9_Witness ==
    /\ ret = kGameInitErr_ScriptLinkFailed
    /\ game.numcharacters > 0 /\ game.numgui > 0 /\ game.numdialog > 0
    /\ allocs # {}
    /\ Len(Registrations) > 0

\* C10: a run that returns NoError took the steps validation, override,
\* allocation, registration, fonts, scripts, runtime variables, plugin
\* registration, plugin startup in this order and each once; no step is ever
\* taken twice, and the plugins are started only after the entities were
\* registered and the global script was linked.
C10_StepOrder ==
    /\ (Returned /\ ret = kGameInitErr_NoError) => log = StepsOfSuccess
    /\ \A i, j \in 1..Len(log) : log[i] = log[j] => i = j
    /\ (\E i \in 1..Len(log) : log[i] = "pl_startup")
          => /\ Before("entities", "pl_startup")
             /\ Before("scripts", "pl_startup")
             /\ Before("pl_register", "pl_startup")
             /\ scripts = "linked"
             /\ \E ver270 \in BOOLEAN : sysCalls = InitAndRegisterGameEntities(game, ver270)

\* C10 witness: a game with characters came up without error and with a
\* plugin started
C10_Witness ==
    /\ Returned
    /\ ret = kGameInitErr_NoError
    /\ plStarted # <<>>
    /\ game.numcharacters > 0

-----------------------------------------------------------------------------
\* Properties of the registration of the game entities (checked under Spec)

\* the managed-object registrations of the elements of the array arr
HandlesOf(arr) ==
    { i \in 1..Len(sysCalls) : /\ sysCalls[i].fn = "ccRegisterManagedObject"
                               /\ sysCalls[i].addr.arr = arr }
\* the static-array exports under the symbol name
ArrayExports(name) ==
    { i \in 1..Len(sysCalls) : /\ sysCalls[i].fn = "ccAddExternalStaticArray"
                               /\ sysCalls[i].name = name }

\* C11: a game with numcharacters = N that InitGameState brought up without
\* error has exactly N registered character handles and exactly one
\* static-array export named "character", whose element count is N.
C11_CharacterExport ==
    (Returned /\ ret = kGameInitErr_NoError) =>
        /\ Cardinality(HandlesOf("game.chars")) = game.numcharacters
        /\ Cardinality(ArrayExports("character")) = 1
        /\ \A i \in ArrayExports("character") :
              /\ sysCalls[i].addr = Addr("game.chars", 0)
              /\ StaticArrays[sysCalls[i].mgr].ElemCount = game.numcharacters

\* C12: no global script symbol is added under an empty name, whatever the
\* kind of the entity (audio clip, character, dialog, GUI, inventory item).
C12_EmptyNameNotExposed ==
    \A i \in 1..Len(sysCalls) :
        sysCalls[i].fn = "ccAddExternalDynamicObject" => sysCalls[i].name # ""

-----------------------------------------------------------------------------
\* Properties of the fonts and of the resolution override (checked under Spec)

\* the declared point size of font slot i, 0 read as 8
DeclaredSize(i) == IF FontFlagSize(i) = 0 THEN 8 ELSE FontFlagSize(i)

\* C19 as stated: the size of a loaded font is twice the declared one exactly
\* when the no-scale-fonts option is set and the game is hi-res.
C19_DoubledWhenOptionSet ==
    \A i \in 1..Len(fonts) :
        fonts[i] = IF game.optNoScaleFnt # 0 /\ IsHiRes(game)
                   THEN 2 * DeclaredSize(i - 1) ELSE DeclaredSize(i - 1)

\* C19 amended: the size of a loaded font is twice the declared one exactly
\* when the no-scale-fonts option is clear (options[OPT_NOSCALEFNT] = 0) and
\* the game is hi-res; otherwise it is the declared size, 0 read as 8.
C19_DoubledWhenOptionClear ==
    \A i \in 1..Len(fonts) :
        /\ (game.optNoScaleFnt = 0 /\ IsHiRes(game)) => fonts[i] = 2 * DeclaredSize(i - 1)
        /\ (game.optNoScaleFnt # 0 \/ ~IsHiRes(game)) => fonts[i] = DeclaredSize(i - 1)

\* C19 witness: two fonts of a hi-res game with the option clear were loaded
\* at twice their sizes (0 -> 8 -> 16, 11 -> 22)
C19_Witness ==
    /\ game.optNoScaleFnt = 0 /\ IsHiRes(game)
    /\ Len(fonts) = 2
    /\ fonts[1] = 16 /\ fonts[2] = 22

\* the resolution class the override turns res into
Upscaled(res) ==
    CASE res = "kGameResolution_320x200" -> "kGameResolution_640x400"
      [] res = "kGameResolution_320x240" -> "kGameResolution_640x480"
      [] OTHER -> res
\* step 2 of InitGameState was taken
OverrideTaken == \E i \in 1..Len(log) : log[i] = "override"

\* C20: with the override option off the default resolution stays as it was
\* loaded; with the option on it is, from step 2 on, 640x400 for 320x200,
\* 640x480 for 320x240 and the loaded class otherwise; and nothing is
\* allocated, registered or loaded before step 2 was taken.
C20_ResolutionOverride ==
    /\ ~usetup.override_upscale => game.resolution = loadedRes
    /\ ~OverrideTaken =>
          (game.resolution = loadedRes /\ NothingAllocatedOrRegistered /\ fonts = <<>>)
    /\ (usetup.override_upscale /\ OverrideTaken) => game.resolution = Upscaled(loadedRes)
    /\ (allocs # {} \/ sysCalls # <<>> \/ fonts # <<>>) =>
          (Before("override", "alloc") /\ Before("override", "entities")
           /\ Before("override", "fonts"))
    /\ allocs \in {{}, AllocGameObjects(game)}

\* C20 witness: a 320x240 game was overridden to 640x480 and its objects were
\* then allocated and registered
C20_Witness ==
    /\ usetup.override_upscale
    /\ loadedRes = "kGameResolution_320x240"
    /\ game.resolution = "kGameResolution_640x480"
    /\ allocs # {} /\ sysCalls # <<>>

-----------------------------------------------------------------------------
\* Properties of the mouse object (checked under SpecMouse)

\* C18: ReadInt32 returns x for offset 0 and y for offset 4 without an error,
\* and reports an error and returns 0 for every other offset; WriteInt32
\* reports an error for every offset (read-only for 0 and 4, unsupported
\* otherwise); no access changes x or y, and the engine keeps running.
C18_FieldDispatch ==
    /\ quitmsg = "none"
    /\ lastMouse.op # "none" => mouse = lastMouse.was
    /\ lastMouse.op = "ReadInt32" =>
          /\ lastMouse.offset = 0 => (lastMouse.ret = mouse.x /\ lastMouse.err = "")
          /\ lastMouse.offset = 4 => (lastMouse.ret = mouse.y /\ lastMouse.err = "")
          /\ lastMouse.offset \notin {0, 4} =>
                /\ lastMouse.ret = 0
                /\ lastMouse.err = "ScriptMouse: unsupported variable offset %d"
                /\ ccError.text = lastMouse.err
    /\ lastMouse.op = "WriteInt32" =>
          /\ ccError.text = lastMouse.err
          /\ lastMouse.err =
                IF lastMouse.offset \in {0, 4}
                THEN "ScriptMouse: attempt to write readonly variable at offset %d"
                ELSE "ScriptMouse: unsupported variable offset %d"

\* C18 witness: a write of 9 to offset 0 was refused as read-only and the
\* mouse still is at x = 1, y = 2
C18_Witness ==
    /\ lastMouse.op = "WriteInt32" /\ lastMouse.offset = 0 /\ lastMouse.val = 9
    /\ mouse = [x |-> 1, y |-> 2]
    /\ ccError.text = "ScriptMouse: attempt to write readonly variable at offset %d"

-----------------------------------------------------------------------------
\* Properties of the static array exporter (checked under SpecArrays)

-----------------------------------------------------------------------------
\* Properties of the room fixups (checked under SpecRoom)

\* the sizes of the background frames and of the masks of a room
Dims(r) ==
    [ frames |-> [ i \in 1..Len(r.BgFrames) |-> <<r.BgFrames[i].w, r.BgFrames[i].h>> ],
      masks |-> [ name \in MaskNames |-> <<r.masks[name].w, r.masks[name].h>> ] ]
\* the mask has the size of the first background frame divided by MaskResolution
Fits(r, name) ==
    /\ r.masks[name] # NullBmp
    /\ r.masks[name].w = r.BgFrames[1].w \div r.MaskResolution
    /\ r.masks[name].h = r.BgFrames[1].h \div r.MaskResolution

\* C16: a call of UpscaleRoomBackground that is not the first on this room
\* leaves the size of every background frame and of every mask as it was.
C16_UpscaleOnce ==
    (lastRoom.op = "UpscaleRoomBackground" /\ lastRoom.upscales >= 2)
        => Dims(room) = Dims(lastRoom.before)

\* C16 witness: a low-res room of a hi-res game was upscaled by the first
\* call and a further call has been made
C16_Witness ==
    /\ lastRoom.op = "UpscaleRoomBackground" /\ lastRoom.upscales = 2
    /\ room.upscaled /\ IsHiRes(game)
    /\ room.BgFrames[1].w = 10 /\ room.MaskResolution = 2

\* C17: FixRoomMasks keeps every mask that already has the size background /
\* MaskResolution as the same bitmap object, and allocates nothing when all
\* four have it; a mask comes back as another object only when its size
\* differed, and then as a newly allocated bitmap of the wanted size.
C17_FixKeepsFittingMasks ==
    lastRoom.op = "FixRoomMasks" =>
        /\ \A name \in MaskNames :
              /\ Fits(lastRoom.before, name) =>
                    room.masks[name] = lastRoom.before.masks[name]
              /\ room.masks[name] # lastRoom.before.masks[name] =>
                    /\ ~Fits(lastRoom.before, name)
                    /\ room.masks[name].id >= lastRoom.nextBefore
                    /\ Fits(room, name)
        /\ (\A name \in MaskNames : Fits(lastRoom.before, name)) => nextBmp = lastRoom.nextBefore
        /\ room.BgFrames = lastRoom.before.BgFrames

\* C17 witness: FixRoomMasks ran on a room with MaskResolution 2 whose four
\* masks all had the fitting size, and the masks are the same objects
C17_Witness ==
    /\ lastRoom.op = "FixRoomMasks"
    /\ room.MaskResolution = 2
    /\ \A name \in MaskNames : Fits(lastRoom.before, name)
    /\ \A name \in MaskNames : room.masks[name].id = 11 + MaskSlot(name)

-----------------------------------------------------------------------------
\* Properties of the managed object registry (checked under SpecRegistry)

\* the state of the handle h in the pool p
HandleState(p, h) ==
    IF \E e \in p : e.handle = h
    THEN (CHOOSE e \in p : e.handle = h).state
    ELSE "Unregistered"
\* the moves of the handle state machine
HandleMoves ==
    { <<"Unregistered", "Registered">>, <<"Registered", "Referenced">>,
      <<"Referenced", "Referenced">>, <<"Referenced", "Released">> }
\* the handles registered by InitAndRegisterGameEntities
InitHandles == { e \in pool : e.addr.arr # "scriptObject" }

\* what holds of the pool at every moment
HandleInvariant ==
    /\ \A e \in pool :
          /\ e.state \in {"Registered", "Referenced", "Released"}
          /\ e.state = "Registered" => e.refCount = 0
          /\ e.state = "Released" => (e.refCount = 0 /\ IsDynamic(e.addr) /\ e.handle \in disposed)
    /\ \A h \in disposed :
          \E e \in pool : e.handle = h /\ IsDynamic(e.addr) /\ e.refCount = 0
                            /\ e.state = "Released"
    /\ \A e \in InitHandles : e.state # "Released"
\* what holds of every step
HandleStep ==
    /\ \A e \in pool' :
          \/ HandleState(pool, e.handle) = e.state
          \/ <<HandleState(pool, e.handle), e.state>> \in HandleMoves
    /\ \A e \in pool : \E x \in pool' : x.handle = e.handle /\ x.addr = e.addr
    /\ \A h \in disposed' \ disposed :
          \E e \in pool : e.handle = h /\ IsDynamic(e.addr) /\ e.refCount = 1

\* C13: a handle moves only along Unregistered -> Registered -> ReferencedN
\* -> Released; the destroy hook is invoked only when the count of a
\* dynamically allocated object goes from one to zero; and no handle
\* registered by InitAndRegisterGameEntities, the rendering surface of the
\* dialog options included, is ever Released, whatever references the scripts
\* take and drop.
C13_HandleLifecycle == []HandleInvariant /\ [][HandleStep]_vars

\* C13 witness: the scripts hold a reference to the surface, have taken and
\* dropped one to character 0, and an object they created was released
C13_Witness ==
    /\ \E e \in pool : /\ e.addr = Addr("dialogOptionsRenderingSurface", 0)
                        /\ e.refCount = 2 /\ e.held = 1
    /\ \E e \in pool : /\ e.addr = Addr("game.chars", 0)
                        /\ e.state = "Referenced" /\ e.refCount = 0
    /\ \E e \in pool : e.addr.arr = "scriptObject" /\ e.state = "Released"

\* C14: the addresses registered so far have pairwise distinct handles, as
\* many handles as addresses.
C14_DistinctHandles ==
    /\ \A e1, e2 \in pool : e1.addr # e2.addr => e1.handle # e2.handle
    /\ Cardinality({ e.handle : e \in pool }) = Cardinality({ e.addr : e \in pool })
    /\ \A e \in pool : e.handle \in 1..(nextHandle - 1)

\* C14 witness: all the entities of a game with a dialog, a GUI and an audio
\* clip were registered, the calls of the engine being done
C14_Witness ==
    /\ initQueue = <<>>
    /\ game.numgui = 1
    /\ Cardinality({ e.addr : e \in pool }) >= 10
    /\ \E e \in pool : e.addr = Addr("scrGui", 0)

-----------------------------------------------------------------------------
\* Registration of the fixed entities (checked under Spec)

\* the calls of sysCalls that pass the address to ccRegisterManagedObject
RegisteredAt(addr) ==
    { i \in 1..Len(sysCalls) : /\ sysCalls[i].fn = "ccRegisterManagedObject"
                               /\ sysCalls[i].addr = addr }
\* the elements 0..n-1 of the array arr
Elements(arr, n) == { Addr(arr, i) : i \in 0..(n - 1) }
\* the fixed entities of the game g
FixedEntities(g) ==
    Elements("scrAudioChannel", MAX_SOUND_CHANNELS + 1)
    \cup Elements("game.audioClips", g.audioClipCount)
    \cup Elements("game.chars", g.numcharacters)
    \cup Elements("scrDialog", g.numdialog)
    \cup { Addr("ccDialogOptionsRendering", 0), Addr("dialogOptionsRenderingSurface", 0) }
    \cup Elements("scrGui", g.numgui)
    \cup Elements("scrInv", MAX_INV)
    \cup Elements("scrHotspot", MAX_HOTSPOTS)
    \cup Elements("scrRegion", MAX_REGIONS)
    \cup Elements("scrObj", MAX_INIT_SPR)

\* C21: once InitAndRegisterGameEntities has run, every fixed entity address
\* was passed to ccRegisterManagedObject exactly once, and nothing else was;
\* before it has run, nothing was registered.
C21_RegisteredExactlyOnce ==
    IF sysCalls = <<>>
    THEN \A i \in 1..Len(log) : log[i] # "entities"
    ELSE LET regs == SelectSeq(sysCalls, LAMBDA c : c.fn = "ccRegisterManagedObject")
             addrs == { regs[i].addr : i \in 1..Len(regs) }
         IN  /\ addrs = FixedEntities(game)
             /\ Len(regs) = Cardinality(addrs)

\* C21 witness: the entities of a game with two characters, a dialog, a GUI
\* and an audio clip were registered
C21_Witness ==
    /\ sysCalls # <<>>
    /\ game.numcharacters = 2 /\ game.numdialog = 1 /\ game.numgui = 1
    /\ game.audioClipCount = 1
    /\ Cardinality(RegisteredAt(Addr("scrGui", 0))) = 1
    /\ Cardinality(RegisteredAt(Addr("scrAudioChannel", MAX_SOUND_CHANNELS))) = 1

-----------------------------------------------------------------------------
\* Set/get round trip of the property store (checked under SpecProps)

\* the names a script may spell a property with: those the calls are made
\* with, and two more spellings of "Nm"
Spellings == PropNames \cup { <<110, 109>>, <<78, 77>> }
\* the spellings of the name, whatever the letter case
SpellingsOf(name) == { n \in Spellings : ToLower(n) = ToLower(name) }
\* what fits into a script string buffer
Truncated(v) == IF Len(v) > MAX_MAXSTRLEN - 1 THEN SubSeq(v, 1, MAX_MAXSTRLEN - 1) ELSE v
\* the runtime map has one entry per name, under the schema's spelling
CanonicalKeys ==
    /\ \A e \in rt_prop : \E d \in propSchema : e.key = d.Name
    /\ \A e1, e2 \in rt_prop : ToLower(e1.key) = ToLower(e2.key) => e1 = e2
\* the entries of a map under other names than the given one
OtherKeys(map, name) == { e \in map : ToLower(e.key) # ToLower(name) }

\* C22 as stated, for the text accessors: after a successful
\* set_text_property(rt, name, v), get_text_property gives back v.
C22_TextRoundTripExact ==
    (last.op = "set_text_property" /\ last.ok) =>
        get_text_property(st_prop, rt_prop, last.property, bufer).bufer = last.arg

\* after a successful set, the getter of the same type returns the value for
\* every static map and every spelling: the integer as it was set, the text
\* cut to the MAX_MAXSTRLEN - 1 characters a script buffer holds
RoundTrip ==
    /\ CanonicalKeys
    /\ (last.op = "set_int_property" /\ last.ok) =>
          \A st \in StaticMaps, n \in SpellingsOf(last.property) :
              get_int_property(st, rt_prop, n) = [quit |-> "none", ret |-> last.int]
    /\ (last.op = "set_text_property" /\ last.ok) =>
          \A st \in StaticMaps, n \in SpellingsOf(last.property) :
              get_text_property(st, rt_prop, n, bufer)
                  = [quit |-> "none", bufer |-> Truncated(last.arg)]
\* a successful set changes the one key of the runtime map and nothing else
SetFrame ==
    (last'.op \in Setters /\ last'.ok) =>
        /\ st_prop' = st_prop
        /\ OtherKeys(rt_prop', last'.property) = OtherKeys(rt_prop, last'.property)
        /\ Cardinality(EntriesFor(rt_prop', last'.property)) = 1
        /\ bufer' = bufer /\ quitmsg' = "none"

\* C22 amended: after a successful set_int_property(rt, name, v),
\* get_int_property returns v for every static map and every spelling of the
\* name; after a successful set_text_property(rt, name, v), get_text_property
\* gives v cut to MAX_MAXSTRLEN - 1 characters (v itself when it is shorter);
\* the override is stored under the schema's name, and a successful set
\* changes only that key of the runtime map, not the static map nor any
\* other runtime key.
C22_RoundTripAndFrame == []RoundTrip /\ [][SetFrame]_vars

\* C22 witness: "abc" was set for "Nm" over a static value while the runtime
\* map held -12 for "Hp", and both overrides are there
C22_Witness ==
    /\ last.op = "set_text_property" /\ last.ok /\ last.arg = sabc
    /\ \E e \in st_prop : e.key = sNm
    /\ [key |-> sHp, val |-> IntToString(0 - 12)] \in rt_prop
    /\ [key |-> sNm, val |-> sabc] \in rt_prop

====
